---- MODULE Spec2Model ----
(***************************************************************************)
(* Simulation and network-synchronisation engine of the two-peer wolf /   *)
(* snake game: App (session set-up), LobbyScreen (start handshake) and     *)
(* GameEngine (per-frame loop, physics, combat, replication).              *)
(*                                                                         *)
(* Geometry.  The engine computes with floating-point 2D vectors.  The     *)
(* model follows the entities along one horizontal row of the world (the   *)
(* row through the sanctuary centre): every position is the x coordinate   *)
(* on that row, in half world units (Unit = 2, so that the snake speed     *)
(* 3.5 is the integer 7).  On a row atan2(0, dx) is 0 or pi, cos is +1 or  *)
(* -1 and sin is 0, so every formula of the source is exact.  Angles are   *)
(* in milliradians.  walkCycle is in tenths.                               *)
(***************************************************************************)
EXTENDS Integers, Sequences, FiniteSets, TLC

\* ------------------------------------------------------------------ bounds
MaxTicks == 2
MaxSessionTicks == 1
MaxLost == 1
MaxClock == 1
MaxMounts == 1
MaxCandidates == 3
MaxDraws == 3
MaxCooldownTicks == 26

\* --------------------------------------------------------------- constants
Unit == 2
PI == 3142
CANVAS_WIDTH == 2500 * Unit
SPAWN_ZONE_CENTER == 1250 * Unit
SPAWN_ZONE_RADIUS == 300 * Unit
margin == 50 * Unit
speed == 7 * Unit
snakeSpeed == 7
attackRange == 150 * Unit
attackAngle == 1500
knockback == 40 * Unit
aggroRangeWide == 1000 * Unit
aggroRange == 800 * Unit
biteRange == 35 * Unit
biteDamage == 10
snakeCooldown == 60
playerCooldown == 25
spawnMinDist == 600 * Unit
respawnFloor == 5
respawnBatch == 3
initialBatch == 5
xpPerKill == 10
streamRadius == 60 * Unit

Peers == {"A", "B"}
Conns == {"AB", "BA"}
NoConn == "none"
NoFriend == [type |-> "NONE"]
Undefined == -1

Other(p) == IF p = "A" THEN "B" ELSE "A"
Initiator(c) == IF c = "AB" THEN "A" ELSE "B"
Target(c) == IF c = "AB" THEN "B" ELSE "A"

\* ------------------------------------------------------------------ utils
Abs(n) == IF n < 0 THEN -n ELSE n
Max(a, b) == IF a > b THEN a ELSE b
Min(a, b) == IF a < b THEN a ELSE b

dist(a, b) == Abs(a - b)

\* Math.atan2(0, dx) on the row, in milliradians
atan2(dx) == IF dx < 0 THEN PI ELSE 0

\* Math.cos of an angle that is 0 or pi
cos(angle) == IF angle = PI THEN -1 ELSE 1

Ids(es) == {es[i].id : i \in 1..Len(es)}

\* -------------------------------------------------------- entity factories
NewPlayer ==
  [id |-> "p1", pos |-> SPAWN_ZONE_CENTER, rotation |-> 0, radius |-> 25 * Unit,
   type |-> "PLAYER", hp |-> 100, maxHp |-> 100, isAttacking |-> FALSE,
   attackCooldown |-> 0, walkCycle |-> 0, level |-> 1, xp |-> 0, maxXp |-> 100]

NewFriend ==
  [id |-> "p2", pos |-> SPAWN_ZONE_CENTER + 60 * Unit, rotation |-> 0,
   radius |-> 25 * Unit, type |-> "FRIEND", hp |-> 100, maxHp |-> 100,
   isAttacking |-> FALSE, attackCooldown |-> 0, walkCycle |-> 0, level |-> 1]

NewSnake(t, i, x) ==
  [id |-> <<t, i>>, pos |-> x, rotation |-> 0, radius |-> 20 * Unit,
   type |-> "SNAKE", hp |-> 60, maxHp |-> 60, isAttacking |-> FALSE,
   attackCooldown |-> 0, walkCycle |-> 0]

\* ----------------------------------------------------------- environment
\* initWorld(seed): the layout is a function of the seed alone.  On the row
\* the layout is the sequence of rocks (push-out order) and the stream zones
\* that the row crosses.
Rock(x, r) == [pos |-> x, radius |-> r, type |-> "ROCK"]
Stream(x) == [pos |-> x, radius |-> streamRadius, type |-> "STREAM"]
Tree(x, r) == [pos |-> x, radius |-> r, type |-> "TREE"]

initWorld(seed) ==
  CASE seed = 1 -> [seed |-> 1,
                    rocks |-> <<Rock(589 * Unit + 1, 35 * Unit),
                                Rock(2457 * Unit + 1, 39 * Unit)>>,
                    trees |-> <<Tree(1900 * Unit, 65 * Unit)>>,
                    streams |-> <<Stream(1417 * Unit)>>]
    [] seed = 2 -> [seed |-> 2,
                    rocks |-> <<Rock(430 * Unit, 35 * Unit)>>,
                    trees |-> <<Tree(1700 * Unit, 65 * Unit)>>,
                    streams |-> <<Stream(1250 * Unit)>>]
    [] seed = 3 -> [seed |-> 3,
                    rocks |-> <<Rock(589 * Unit + 1, 35 * Unit)>>,
                    trees |-> <<Tree(300 * Unit, 48 * Unit)>>,
                    streams |-> <<Stream(1083 * Unit)>>]
    [] seed = 4 -> [seed |-> 4,
                    rocks |-> <<Rock(430 * Unit, 35 * Unit)>>,
                    trees |-> <<Tree(1700 * Unit, 65 * Unit)>>,
                    streams |-> <<Stream(1417 * Unit)>>]
    [] OTHER -> [seed |-> seed, rocks |-> <<>>, trees |-> <<>>, streams |-> <<>>]

\* ------------------------------------------------------------ melee attack
\* variant: experience keeps counting past the level-up
gainXpUncapped(p, amount) ==
  LET xp1 == p.xp + amount IN
  IF xp1 >= p.maxXp
  THEN [p EXCEPT !.level = 2, !.xp = xp1, !.hp = p.maxHp]
  ELSE [p EXCEPT !.xp = xp1]

\* gainXp(amount) applied to the player record
gainXp(p, amount) ==
  IF p.level >= 2 THEN p
  ELSE LET xp1 == p.xp + amount IN
       IF xp1 >= p.maxXp
       THEN [p EXCEPT !.level = 2, !.xp = p.maxXp, !.hp = p.maxHp]
       ELSE [p EXCEPT !.xp = xp1]

RECURSIVE gainXpTimes(_, _)
gainXpTimes(p, k) == IF k = 0 THEN p ELSE gainXpTimes(gainXp(p, xpPerKill), k - 1)

\* angleDiff after the two while loops of handleAttack
normAngle(a) ==
  LET a1 == IF a > PI THEN a - 2 * PI ELSE a
  IN IF a1 < -PI THEN a1 + 2 * PI ELSE a1

inConeClosed(p, enemy) ==
  LET dx == enemy.pos - p.pos
      d == Abs(dx)
      angleToEnemy == atan2(dx)
  IN d <= attackRange /\ Abs(normAngle(angleToEnemy - p.rotation)) <= attackAngle

inCone(p, enemy) ==
  LET dx == enemy.pos - p.pos
      d == Abs(dx)
      angleToEnemy == atan2(dx)
  IN d < attackRange /\ Abs(normAngle(angleToEnemy - p.rotation)) < attackAngle

damageOfFlat(p) == 12

damageOf(p) == IF p.level >= 2 THEN 60 ELSE 12

hitEnemy(p, enemy, damage) ==
  IF inCone(p, enemy)
  THEN [enemy EXCEPT !.hp = enemy.hp - damage,
                     !.pos = enemy.pos + cos(atan2(enemy.pos - p.pos)) * knockback]
  ELSE enemy

\* Enemy just died in this attack
justKilled(p, enemy, damage) ==
  inCone(p, enemy) /\ enemy.hp - damage <= 0 /\ enemy.hp > 0

\* variant: the attack ignores the cooldown
handleAttackNoCooldown(p, es, over) ==
  IF over THEN [player |-> p, enemies |-> es]
  ELSE LET damage == damageOf(p)
           p1 == [p EXCEPT !.isAttacking = TRUE, !.attackCooldown = playerCooldown]
           kills == Cardinality({i \in 1..Len(es) : justKilled(p, es[i], damage)})
       IN [player |-> gainXpTimes(p1, kills),
           enemies |-> [i \in 1..Len(es) |-> hitEnemy(p, es[i], damage)]]

\* handleAttack: result [player, enemies] (no-op when on cooldown or game over)
handleAttack(p, es, over) ==
  IF over \/ p.attackCooldown > 0 THEN [player |-> p, enemies |-> es]
  ELSE LET damage == damageOf(p)
           p1 == [p EXCEPT !.isAttacking = TRUE, !.attackCooldown = playerCooldown]
           kills == Cardinality({i \in 1..Len(es) : justKilled(p, es[i], damage)})
       IN [player |-> gainXpTimes(p1, kills),
           enemies |-> [i \in 1..Len(es) |-> hitEnemy(p, es[i], damage)]]

\* ------------------------------------------------------------ updatePhysics
\* movement integration and facing; dx is the key/joystick direction on the row
movePlayer(p, dx) ==
  IF dx # 0
  THEN [p EXCEPT !.pos = p.pos + dx * speed,
                 !.walkCycle = p.walkCycle + 3,
                 !.rotation = atan2(dx)]
  ELSE [p EXCEPT !.walkCycle = 0]

\* variant: the flag is left set when the cooldown runs out
cooldownStepKeepsFlag(p) ==
  IF p.attackCooldown > 0
  THEN [p EXCEPT !.attackCooldown = p.attackCooldown - 1]
  ELSE p

cooldownStep(p) ==
  IF p.attackCooldown > 0
  THEN [p EXCEPT !.attackCooldown = p.attackCooldown - 1,
                 !.isAttacking = IF p.attackCooldown - 1 <= 0 THEN FALSE
                                 ELSE p.isAttacking]
  ELSE p

nearStreamAlways(p, env) == TRUE

nearStream(p, env) ==
  \E i \in 1..Len(env.streams) : dist(p.pos, env.streams[i].pos) < env.streams[i].radius

\* coin is the outcome of Math.random() > 0.9
healStep(p, env, coin) ==
  IF nearStream(p, env) /\ p.hp < p.maxHp /\ coin
  THEN [p EXCEPT !.hp = Min(p.maxHp, p.hp + 1)]
  ELSE p

\* target choice of one snake: the player unless the friend is strictly nearer
targetIsFriend(snake, p, f) ==
  f # NoFriend /\ dist(snake.pos, f.pos) < dist(snake.pos, p.pos)

closestDist(snake, p, f) ==
  IF targetIsFriend(snake, p, f) THEN dist(snake.pos, f.pos)
  ELSE dist(snake.pos, p.pos)

bites(snake, p, f) ==
  closestDist(snake, p, f) < aggroRange
  /\ closestDist(snake, p, f) < biteRange /\ snake.attackCooldown <= 0

\* one iteration of the s.enemies.forEach of the enemy logic
snakeStep(snake, p, f) ==
  LET target == IF targetIsFriend(snake, p, f) THEN f.pos ELSE p.pos
      angle == atan2(target - snake.pos)
      moved == IF closestDist(snake, p, f) < aggroRange
               THEN [snake EXCEPT !.rotation = angle,
                                  !.pos = snake.pos + cos(angle) * snakeSpeed,
                                  !.walkCycle = snake.walkCycle + 4]
               ELSE snake
      bitten == IF bites(snake, p, f)
                THEN [moved EXCEPT !.attackCooldown = snakeCooldown,
                                   !.isAttacking = TRUE]
                ELSE moved
  IN IF bitten.attackCooldown > 0
     THEN [bitten EXCEPT !.attackCooldown = bitten.attackCooldown - 1]
     ELSE bitten

\* damage the enemy logic deals to the local player in one tick
biteDamageTo(es, p, f) ==
  biteDamage * Cardinality({i \in 1..Len(es) :
                             bites(es[i], p, f) /\ ~targetIsFriend(es[i], p, f)})

isAlive(e) == e.hp > 0

\* spawnSnakes(count) at clock value t with the drawn positions xs: the batch
spawnOkAnywhere(x, p) == TRUE

\* negation of the while condition: the draw that ends the retry loop
spawnOk(x, p) ==
  ~(dist(x, p.pos) < spawnMinDist \/ dist(x, SPAWN_ZONE_CENTER) < SPAWN_ZONE_RADIUS)

spawnSnakes(count, t, xs) == [i \in 1..count |-> NewSnake(t, i - 1, xs[i])]

\* "Cleanup Dead Snakes": the batch is pushed on the array that the next
\* statement replaces by aliveEnemies
respawns(es) ==
  LET aliveEnemies == SelectSeq(es, isAlive)
  IN Len(aliveEnemies) < Len(es) /\ Len(aliveEnemies) < respawnFloor

cleanupDead(es, batch) ==
  LET aliveEnemies == SelectSeq(es, isAlive)
      replaced == IF respawns(es) THEN es \o batch ELSE es
  IN [enemies |-> aliveEnemies, replaced |-> replaced]

clampX(x) == Max(0, Min(CANVAS_WIDTH, x))

RECURSIVE pushOut(_, _, _)
pushOut(ent, rocks, i) ==
  IF i > Len(rocks) THEN ent
  ELSE LET rock == rocks[i]
           d == dist(ent.pos, rock.pos)
           minD == ent.radius + rock.radius
           angle == atan2(ent.pos - rock.pos)
           ent1 == IF d < minD
                   THEN [ent EXCEPT !.pos = ent.pos + cos(angle) * (minD - d)]
                   ELSE ent
       IN pushOut(ent1, rocks, i + 1)

\* world bounds, then environment collision, of one dynamic entity
boundAndCollide(ent, env) ==
  pushOut([ent EXCEPT !.pos = clampX(ent.pos)], env.rocks, 1)

\* variant: the enemy logic runs on every participant
authorityEverywhere(mp, host) == TRUE

authority(mp, host) == ~mp \/ host

\* updatePhysics(s): s = [player, friend, enemies], the props and the inputs
updatePhysics(s, env, mp, host, dx, coin, batch) ==
  LET p1 == healStep(cooldownStep(movePlayer(s.player, dx)), env, coin)
      f == s.friend
      es == s.enemies
      p2 == IF authority(mp, host)
            THEN [p1 EXCEPT !.hp = p1.hp - biteDamageTo(es, p1, f)]
            ELSE p1
      es0 == [i \in 1..Len(es) |-> snakeStep(es[i], p1, f)]
      es1 == IF authority(mp, host) THEN cleanupDead(es0, batch).enemies ELSE es
  IN [player |-> boundAndCollide(p2, env),
      enemies |-> [i \in 1..Len(es1) |-> boundAndCollide(es1[i], env)],
      friend |-> IF f = NoFriend THEN f ELSE boundAndCollide(f, env),
      bitten |-> IF authority(mp, host)
                 THEN {es[i].id : i \in {j \in 1..Len(es) : bites(es[j], p1, f)}}
                 ELSE {},
      removed |-> IF authority(mp, host) THEN Len(es0) - Len(es1) ELSE 0,
      respawn |-> authority(mp, host) /\ respawns(es0),
      spawned |-> IF authority(mp, host) /\ respawns(es0) THEN batch ELSE <<>>]

\* ------------------------------------------------------------------ state
VARIABLES
  screen,        \* App: screen of each participant
  isHost,        \* App: profile.isHost
  isMultiplayer, \* App: isMultiplayer
  conn,          \* App: conn (the connection handed to Lobby and GameEngine)
  GAME_SEED,     \* window.GAME_SEED of each participant
  connState,     \* PeerJS: "none", "connecting", "open" or "closed"
  connEvent,     \* PeerJS: 'connection' event not yet dispatched at the target
  chan,          \* messages in flight: chan[c][p] is the queue towards p
  lobbyHandlers, \* conn.on('data') listeners registered by LobbyScreen
  dataHandlers,  \* conn.on('data') listeners registered by GameEngine
  mounts,        \* number of GameEngine instances each participant created
  lost,          \* number of messages the transport lost so far
  player, friend, enemies, environment, score, gameOver,  \* state.current
  hudGameOver,   \* hudState.gameOver
  loop,          \* requestRef: "off", "scheduled" or "stopped"
  timers,        \* pending setTimeout callbacks clearing snake.isAttacking
  now,           \* Date.now()
  ticks,         \* number of updatePhysics calls of each participant
  lastTick,      \* what the latest updatePhysics call removed and spawned
  gen            \* initWorld: the obstacle candidates drawn and the obstacles kept

sessionVars == <<screen, isHost, isMultiplayer, conn, GAME_SEED, connState,
                 connEvent, lobbyHandlers, mounts>>
engineVars == <<player, friend, enemies, environment, score, gameOver,
                hudGameOver, loop, timers, ticks>>
vars == <<sessionVars, engineVars, chan, lost, dataHandlers, now, lastTick, gen>>

\* host seed choices (Math.floor(Math.random() * 100000)) and fallback values
\* (Math.random() * 10000) the model draws from
Seeds == {0, 1}
RandomSeeds == {3, 4}
\* positions spawnSnakes may draw on the row, and the draws of one batch
SpawnXs == {700 * Unit, 1300 * Unit, 2480 * Unit}
SpawnDraws(count) ==
  {[i \in 1..count |-> x] : x \in SpawnXs}
    \cup {[i \in 1..count |-> IF i % 2 = 1 THEN 2480 * Unit ELSE 700 * Unit]}
\* direction each participant's user may hold during a frame
Moves(p) == IF p = "A" THEN {0, 1} ELSE {-1, 0}

Truthy(v) == v # Undefined /\ v # 0

EmptyChan == [c \in Conns |-> [p \in Peers |-> <<>>]]

NoTick == [who |-> "A", removed |-> 0, alive |-> 0, spawned |-> <<>>, sent |-> 0]

NoGen == [streams |-> <<>>, cands |-> <<>>, env |-> <<>>, done |-> FALSE]

\* every participant on the AUTH screen, no engine mounted
Unmounted ==
  /\ screen = [p \in Peers |-> "AUTH"]
  /\ isHost = [p \in Peers |-> FALSE]
  /\ isMultiplayer = [p \in Peers |-> FALSE]
  /\ conn = [p \in Peers |-> NoConn]
  /\ GAME_SEED = [p \in Peers |-> Undefined]
  /\ connState = [c \in Conns |-> "none"]
  /\ connEvent = [c \in Conns |-> FALSE]
  /\ chan = EmptyChan
  /\ lobbyHandlers = {}
  /\ dataHandlers = {}
  /\ mounts = [p \in Peers |-> 0]
  /\ lost = 0
  /\ player = [p \in Peers |-> NewPlayer]
  /\ friend = [p \in Peers |-> NoFriend]
  /\ enemies = [p \in Peers |-> <<>>]
  /\ environment = [p \in Peers |-> initWorld(Undefined)]
  /\ score = [p \in Peers |-> 0]
  /\ gameOver = [p \in Peers |-> FALSE]
  /\ hudGameOver = [p \in Peers |-> FALSE]
  /\ loop = [p \in Peers |-> "off"]
  /\ timers = [p \in Peers |-> {}]
  /\ now = 0
  /\ ticks = [p \in Peers |-> 0]
  /\ lastTick = NoTick

Init == Unmounted /\ gen = NoGen

\* ------------------------------------------------------- GameEngine effect
\* useEffect(..., [isMultiplayer, isHost, conn]) of participant p with the
\* props mp, host, c and the window seed gs.  fresh: the component instance
\* (and its state ref) is new; otherwise the effect re-runs on the same state.
Effect(p, fresh, mp, host, c, gs) ==
  \E r \in (IF Truthy(gs) THEN {gs} ELSE RandomSeeds),
     t \in (IF authority(mp, host) /\ ~fresh THEN {now, now + 1} ELSE {now}),
     xs \in SpawnDraws(initialBatch) :
    LET p0 == IF fresh THEN NewPlayer ELSE player[p]
        es0 == IF fresh THEN <<>> ELSE enemies[p]
        seed == IF Truthy(gs) THEN gs ELSE r
        inst == IF fresh THEN mounts[p] + 1 ELSE mounts[p]
    IN /\ t <= MaxClock
       /\ inst <= MaxMounts
       /\ IF authority(mp, host)
          THEN \A i \in 1..initialBatch : spawnOk(xs[i], p0)
          ELSE \A i \in 1..initialBatch : xs[i] = 1300 * Unit
       /\ mounts' = [mounts EXCEPT ![p] = inst]
       /\ player' = [player EXCEPT ![p] = p0]
       /\ friend' = [friend EXCEPT ![p] =
                       IF mp /\ c # NoConn THEN NewFriend
                       ELSE IF fresh THEN NoFriend ELSE friend[p]]
       /\ dataHandlers' = IF mp /\ c # NoConn
                          THEN dataHandlers \cup
                               {[owner |-> p, conn |-> c, isHost |-> host, inst |-> inst]}
                          ELSE dataHandlers
       /\ environment' = [environment EXCEPT ![p] = initWorld(seed)]
       /\ enemies' = [enemies EXCEPT ![p] =
                        IF authority(mp, host)
                        THEN es0 \o spawnSnakes(initialBatch, t, xs) ELSE es0]
       /\ score' = [score EXCEPT ![p] = IF fresh THEN 0 ELSE score[p]]
       /\ gameOver' = [gameOver EXCEPT ![p] = IF fresh THEN FALSE ELSE gameOver[p]]
       /\ hudGameOver' = [hudGameOver EXCEPT ![p] =
                            IF fresh THEN FALSE ELSE hudGameOver[p]]
       /\ timers' = [timers EXCEPT ![p] = IF fresh THEN {} ELSE timers[p]]
       /\ loop' = [loop EXCEPT ![p] = "scheduled"]
       /\ now' = t
       /\ UNCHANGED ticks

NoEffect == UNCHANGED <<engineVars, dataHandlers, now, mounts>>

\* ------------------------------------------------------------ App handlers
handleCreateLobby(p) ==
  /\ screen[p] = "AUTH"
  /\ isHost' = [isHost EXCEPT ![p] = TRUE]
  /\ isMultiplayer' = [isMultiplayer EXCEPT ![p] = TRUE]
  /\ screen' = [screen EXCEPT ![p] = "LOBBY"]
  /\ UNCHANGED <<lastTick, gen>>
  /\ NoEffect
  /\ UNCHANGED <<conn, GAME_SEED, connState, connEvent, chan, lobbyHandlers, lost>>

\* variant: joining enters the game at once, without waiting for the host
handleJoinLobbyStartsGame(p) ==
  \E c \in Conns :
    /\ Initiator(c) = p
    /\ screen[p] = "AUTH"
    /\ connState[c] = "none"
    /\ connState' = [connState EXCEPT ![c] = "connecting"]
    /\ connEvent' = [connEvent EXCEPT ![c] = TRUE]
    /\ conn' = [conn EXCEPT ![p] = c]
    /\ isHost' = [isHost EXCEPT ![p] = FALSE]
    /\ isMultiplayer' = [isMultiplayer EXCEPT ![p] = TRUE]
    /\ screen' = [screen EXCEPT ![p] = "GAME"]
    /\ UNCHANGED <<lastTick, gen>>
    /\ Effect(p, TRUE, TRUE, FALSE, c, GAME_SEED[p])
    /\ UNCHANGED <<GAME_SEED, chan, lost, lobbyHandlers>>

\* handleJoinLobby(hostId) with the other participant's id; LobbyScreen's
\* effect then registers the GAME_START listener (conn set, not host)
handleJoinLobby(p) ==
  \E c \in Conns :
    /\ Initiator(c) = p
    /\ screen[p] = "AUTH"
    /\ connState[c] = "none"
    /\ connState' = [connState EXCEPT ![c] = "connecting"]
    /\ connEvent' = [connEvent EXCEPT ![c] = TRUE]
    /\ conn' = [conn EXCEPT ![p] = c]
    /\ isHost' = [isHost EXCEPT ![p] = FALSE]
    /\ isMultiplayer' = [isMultiplayer EXCEPT ![p] = TRUE]
    /\ screen' = [screen EXCEPT ![p] = "LOBBY"]
    /\ lobbyHandlers' = lobbyHandlers \cup {[owner |-> p, conn |-> c]}
    /\ UNCHANGED <<lastTick, gen>>
    /\ NoEffect
    /\ UNCHANGED <<GAME_SEED, chan, lost>>

\* peer.on('connection') at the target of c
onConnection(c) ==
  LET q == Target(c) IN
  /\ connEvent[c]
  /\ connState[c] = "connecting"
  /\ connEvent' = [connEvent EXCEPT ![c] = FALSE]
  /\ conn' = [conn EXCEPT ![q] = c]
  /\ isMultiplayer' = [isMultiplayer EXCEPT ![q] = TRUE]
  /\ isHost' = [isHost EXCEPT ![q] = TRUE]
  /\ UNCHANGED <<lastTick, gen>>
  /\ IF screen[q] = "GAME"
        /\ <<isMultiplayer[q], isHost[q], conn[q]>> # <<TRUE, TRUE, c>>
     THEN Effect(q, FALSE, TRUE, TRUE, c, GAME_SEED[q])
     ELSE NoEffect
  /\ UNCHANGED <<screen, GAME_SEED, connState, chan, lobbyHandlers, lost>>

\* the data connection opens: connection.on('open') of handleJoinLobby sets
\* conn again at the initiator (LobbyScreen and GameEngine effects follow conn)
onOpen(c) ==
  LET q == Initiator(c) IN
  /\ connState[c] = "connecting"
  /\ ~connEvent[c]
  /\ connState' = [connState EXCEPT ![c] = "open"]
  /\ conn' = [conn EXCEPT ![q] = c]
  /\ lobbyHandlers' = IF screen[q] = "LOBBY" /\ ~isHost[q]
                      THEN lobbyHandlers \cup {[owner |-> q, conn |-> c]}
                      ELSE lobbyHandlers
  /\ UNCHANGED <<lastTick, gen>>
  /\ IF screen[q] = "GAME" /\ conn[q] # c
     THEN Effect(q, FALSE, isMultiplayer[q], isHost[q], c, GAME_SEED[q])
     ELSE NoEffect
  /\ UNCHANGED <<screen, isHost, isMultiplayer, GAME_SEED, connEvent, chan, lost>>

handlePlayOffline(p) ==
  /\ screen[p] = "AUTH"
  /\ isMultiplayer' = [isMultiplayer EXCEPT ![p] = FALSE]
  /\ screen' = [screen EXCEPT ![p] = "GAME"]
  /\ Effect(p, TRUE, FALSE, isHost[p], conn[p], GAME_SEED[p])
  /\ UNCHANGED <<lastTick, gen>>
  /\ UNCHANGED <<isHost, conn, GAME_SEED, connState, connEvent, chan, lobbyHandlers,
                 lost>>

\* LobbyScreen.handleHostStart (the button is rendered for the host only)
handleHostStart(p) ==
  \E seed \in Seeds :
    /\ screen[p] = "LOBBY"
    /\ isHost[p]
    /\ conn[p] # NoConn
    /\ connState[conn[p]] = "open"
    /\ chan' = [chan EXCEPT ![conn[p]][Other(p)] =
                  Append(@, [type |-> "GAME_START", seed |-> seed])]
    /\ GAME_SEED' = [GAME_SEED EXCEPT ![p] = seed]
    /\ screen' = [screen EXCEPT ![p] = "GAME"]
    /\ Effect(p, TRUE, isMultiplayer[p], TRUE, conn[p], seed)
    /\ UNCHANGED <<lastTick, gen>>
    /\ UNCHANGED <<isHost, isMultiplayer, conn, connState, connEvent, lobbyHandlers,
                   lost>>

\* handleBack: onBack of the lobby, onExit of the game
handleBack(p) ==
  /\ screen[p] \in {"LOBBY", "GAME"}
  /\ screen' = [screen EXCEPT ![p] = "AUTH"]
  /\ conn' = [conn EXCEPT ![p] = NoConn]
  /\ connState' = IF conn[p] # NoConn
                  THEN [connState EXCEPT ![conn[p]] = "closed"] ELSE connState
  /\ loop' = [loop EXCEPT ![p] = "off"]
  /\ UNCHANGED <<lastTick, gen>>
  /\ UNCHANGED <<isHost, isMultiplayer, GAME_SEED, connEvent, chan, lost, lobbyHandlers,
                 dataHandlers, mounts, now, player, friend, enemies, environment,
                 score, gameOver, hudGameOver, timers, ticks>>

\* ------------------------------------------------------------- messages
PlayerUpdate(p) ==
  [type |-> "PLAYER_UPDATE",
   data |-> [pos |-> p.pos, rotation |-> p.rotation, walkCycle |-> p.walkCycle,
             isAttacking |-> p.isAttacking, hp |-> p.hp, level |-> p.level]]

WorldUpdate(es) == [type |-> "WORLD_UPDATE", enemies |-> es]

\* variant: the mirror moves half way towards the reported position
applyPlayerUpdateLerp(f, m) ==
  [f EXCEPT !.pos = (f.pos + m.data.pos) \div 2, !.rotation = m.data.rotation,
            !.walkCycle = m.data.walkCycle, !.isAttacking = m.data.isAttacking,
            !.hp = m.data.hp, !.level = m.data.level]

\* variant: the level of the mirror is not refreshed
applyPlayerUpdateNoLevel(f, m) ==
  [f EXCEPT !.pos = m.data.pos, !.rotation = m.data.rotation,
            !.walkCycle = m.data.walkCycle, !.isAttacking = m.data.isAttacking,
            !.hp = m.data.hp]

\* PLAYER_UPDATE branch of the GameEngine listener
applyPlayerUpdate(f, m) ==
  [f EXCEPT !.pos = m.data.pos, !.rotation = m.data.rotation,
            !.walkCycle = m.data.walkCycle, !.isAttacking = m.data.isAttacking,
            !.hp = m.data.hp, !.level = m.data.level]

\* variant: the snapshot is merged into the previous mirror
applyWorldUpdateMerge(es, m, host) ==
  IF ~host THEN m.enemies \o SelectSeq(es, LAMBDA e : e.id \notin Ids(m.enemies))
  ELSE es

\* variant: a snake the receiver has damaged keeps the receiver's health
applyWorldUpdateKeepDamage(es, m, host) ==
  IF ~host
  THEN [i \in 1..Len(m.enemies) |->
          LET mine == {j \in 1..Len(es) : es[j].id = m.enemies[i].id
                                            /\ es[j].hp < m.enemies[i].hp}
          IN IF mine = {} THEN m.enemies[i]
             ELSE [m.enemies[i] EXCEPT !.hp = es[CHOOSE j \in mine : TRUE].hp]]
  ELSE es

\* WORLD_UPDATE branch of the GameEngine listener registered with isHost = host
applyWorldUpdate(es, m, host) == IF ~host THEN m.enemies ELSE es

\* the GameEngine listeners of p on c that act on p's current state ref
liveHandlers(p, c) ==
  {h \in dataHandlers : h.owner = p /\ h.conn = c /\ h.inst = mounts[p]
                         /\ screen[p] = "GAME"}

\* conn.on('data') at participant p: every listener registered on c runs
onData(c, p) ==
  /\ connState[c] = "open"
  /\ chan[c][p] # <<>>
  /\ LET m == Head(chan[c][p])
         hs == liveHandlers(p, c)
         starts == m.type = "GAME_START" /\ [owner |-> p, conn |-> c] \in lobbyHandlers
     IN /\ chan' = [chan EXCEPT ![c][p] = Tail(@)]
        /\ UNCHANGED <<lastTick, gen>>
        /\ IF starts
           THEN /\ GAME_SEED' = [GAME_SEED EXCEPT ![p] = m.seed]
                /\ screen' = [screen EXCEPT ![p] = "GAME"]
                /\ IF screen[p] # "GAME"
                   THEN Effect(p, TRUE, isMultiplayer[p], isHost[p], conn[p], m.seed)
                   ELSE NoEffect
           ELSE /\ UNCHANGED <<GAME_SEED, screen, dataHandlers, now, mounts>>
                /\ friend' = [friend EXCEPT ![p] =
                     IF m.type = "PLAYER_UPDATE" /\ hs # {} /\ friend[p] # NoFriend
                     THEN applyPlayerUpdate(friend[p], m) ELSE friend[p]]
                /\ enemies' = [enemies EXCEPT ![p] =
                     IF m.type = "WORLD_UPDATE" /\ (\E h \in hs : ~h.isHost)
                     THEN applyWorldUpdate(enemies[p], m, FALSE) ELSE enemies[p]]
                /\ UNCHANGED <<player, environment, score, gameOver, hudGameOver,
                               loop, timers, ticks>>
  /\ UNCHANGED <<isHost, isMultiplayer, conn, connState, connEvent, lobbyHandlers,
                 lost>>

\* the transport loses the oldest message in flight towards p
lose(c, p) ==
  /\ chan[c][p] # <<>>
  /\ lost < MaxLost
  /\ lost' = lost + 1
  /\ chan' = [chan EXCEPT ![c][p] = Tail(@)]
  /\ UNCHANGED <<lastTick, gen>>
  /\ NoEffect
  /\ UNCHANGED sessionVars

\* ---------------------------------------------------------------- gameLoop
canSendUnopened(p) == isMultiplayer[p] /\ conn[p] # NoConn

\* if (isMultiplayer && conn && conn.open)
canSend(p) == isMultiplayer[p] /\ conn[p] # NoConn /\ connState[conn[p]] = "open"

\* one animation frame of participant p; limit bounds the ticks of the model
gameLoop(p, limit) ==
  /\ loop[p] = "scheduled"
  /\ IF gameOver[p]
     THEN /\ hudGameOver' = [hudGameOver EXCEPT ![p] = TRUE]
          /\ loop' = [loop EXCEPT ![p] = "stopped"]
          /\ UNCHANGED <<player, friend, enemies, timers, ticks, chan, now, lastTick>>
     ELSE \E dx \in Moves(p) :
          LET s == [player |-> player[p], friend |-> friend[p], enemies |-> enemies[p]]
              pm == movePlayer(player[p], dx)
              \* snakeStep keeps hp, so the cleanup's test is decided by enemies[p]
              respawn == authority(isMultiplayer[p], isHost[p]) /\ respawns(enemies[p])
          IN \E coin \in (IF nearStream(pm, environment[p]) /\ pm.hp < pm.maxHp
                          THEN BOOLEAN ELSE {FALSE}),
                t \in (IF respawn THEN {now, now + 1} ELSE {now}),
                xs \in (IF respawn
                        THEN {d \in SpawnDraws(respawnBatch) :
                                \A i \in 1..respawnBatch : spawnOk(d[i], pm)}
                        ELSE {<<>>}) :
             LET batch == IF respawn THEN spawnSnakes(respawnBatch, t, xs) ELSE <<>>
                 r == updatePhysics(s, environment[p], isMultiplayer[p], isHost[p],
                                    dx, coin, batch)
                 out == IF canSend(p)
                        THEN <<PlayerUpdate(r.player)>> \o
                             (IF isHost[p] THEN <<WorldUpdate(r.enemies)>> ELSE <<>>)
                        ELSE <<>>
             IN /\ ticks["A"] + ticks["B"] < limit
                /\ t <= MaxClock
                /\ player' = [player EXCEPT ![p] = r.player]
                /\ friend' = [friend EXCEPT ![p] = r.friend]
                /\ enemies' = [enemies EXCEPT ![p] = r.enemies]
                /\ timers' = [timers EXCEPT ![p] = @ \cup r.bitten]
                /\ ticks' = [ticks EXCEPT ![p] = @ + 1]
                /\ now' = t
                /\ chan' = IF out = <<>> THEN chan
                           ELSE [chan EXCEPT ![conn[p]][Other(p)] = @ \o out]
                /\ lastTick' = [who |-> p, removed |-> r.removed, alive |-> Len(r.enemies),
                                spawned |-> r.spawned, sent |-> Len(out)]
                /\ UNCHANGED <<hudGameOver, loop>>
  /\ UNCHANGED <<sessionVars, dataHandlers, environment, score, gameOver, lost, gen>>

\* Space key or attack button
onAttack(p) ==
  /\ screen[p] = "GAME"
  /\ LET r == handleAttack(player[p], enemies[p], gameOver[p])
     IN /\ player' = [player EXCEPT ![p] = r.player]
        /\ enemies' = [enemies EXCEPT ![p] = r.enemies]
  /\ UNCHANGED <<lastTick, gen>>
  /\ UNCHANGED <<sessionVars, dataHandlers, chan, lost, now, friend, environment, score,
                 gameOver, hudGameOver, loop, timers, ticks>>

\* setTimeout(() => { snake.isAttacking = false; }, 300)
onSnakeTimeout(p) ==
  \E id \in timers[p] :
    /\ timers' = [timers EXCEPT ![p] = @ \ {id}]
    /\ enemies' = [enemies EXCEPT ![p] =
          [i \in 1..Len(@) |-> IF @[i].id = id THEN [@[i] EXCEPT !.isAttacking = FALSE]
                                ELSE @[i]]]
    /\ UNCHANGED <<lastTick, gen>>
    /\ UNCHANGED <<sessionVars, dataHandlers, chan, lost, now, player, friend, environment,
                   score, gameOver, hudGameOver, loop, ticks>>

\* ----------------------------------------------------------- specifications
\* the whole program from the AUTH screen: session set-up, start handshake,
\* mounting of the engine and its first frames
Next ==
  \/ \E p \in Peers : handleCreateLobby(p)
  \/ \E p \in Peers : handleJoinLobby(p)
  \/ \E c \in Conns : onConnection(c)
  \/ \E c \in Conns : onOpen(c)
  \/ \E p \in Peers : handlePlayOffline(p)
  \/ \E p \in Peers : handleHostStart(p)
  \/ \E c \in Conns, p \in Peers : onData(c, p)
  \/ \E p \in Peers : gameLoop(p, MaxSessionTicks)

Spec == Init /\ [][Next]_vars

\* ---- games in progress
\* a player / snake as it is some time into a game
PlayerAt(x, rot, hp, level, xp) ==
  [NewPlayer EXCEPT !.pos = x, !.rotation = rot, !.hp = hp, !.level = level, !.xp = xp]

SnakeAt(i, x, hp) == [NewSnake(0, i, x) EXCEPT !.hp = hp]

MirrorOf(p) == applyPlayerUpdate(NewFriend, PlayerUpdate(p))

\* solo game on seed 2: player in the stream at the sanctuary centre, low on
\* health and one kill short of level 2, a wounded snake in bite range
Solo1 ==
  [mp |-> FALSE, seed |-> 2,
   pA |-> PlayerAt(1250 * Unit, 0, 6, 1, 90), pB |-> NewPlayer,
   eA |-> <<SnakeAt(0, 1280 * Unit, 12), SnakeAt(1, 1350 * Unit, 60)>>,
   eB |-> <<>>]

\* two peers on seed 1: host at level 2 near the right world edge, one snake
\* spawned over the rock at the edge, the peer holds an older snapshot
Duo1 ==
  [mp |-> TRUE, seed |-> 1,
   pA |-> PlayerAt(2300 * Unit, 0, 100, 2, 100),
   pB |-> PlayerAt(1310 * Unit, 0, 100, 1, 90),
   eA |-> <<SnakeAt(0, 2380 * Unit, 48), SnakeAt(1, 2480 * Unit, 60)>>,
   eB |-> <<SnakeAt(0, 1400 * Unit, 12), SnakeAt(2, 1420 * Unit, 24),
            SnakeAt(3, 2000 * Unit, 60)>>]

\* two peers on seed 2: a snake in bite range of the host's player, another
\* nearer to the remote avatar; the peer's mirror is up to date
Duo2 ==
  [mp |-> TRUE, seed |-> 2,
   pA |-> PlayerAt(600 * Unit, PI, 6, 1, 0),
   pB |-> PlayerAt(700 * Unit, PI, 96, 1, 0),
   eA |-> <<SnakeAt(0, 570 * Unit, 60), SnakeAt(1, 680 * Unit, 48)>>,
   eB |-> <<SnakeAt(0, 570 * Unit, 60), SnakeAt(1, 680 * Unit, 48)>>]

Scenarios == {Solo1, Duo1, Duo2}

\* two peers after a start with seed 0: each drew its own world seed (3 on the
\* host, 4 on the peer); the host walked to x = 480, the peer stays at the
\* centre, one snake far from both
Duo3 ==
  [mp |-> TRUE, seed |-> 0, worlds |-> [A |-> 3, B |-> 4],
   pA |-> PlayerAt(480 * Unit, PI, 100, 1, 0),
   pB |-> PlayerAt(1250 * Unit, 0, 100, 1, 0),
   eA |-> <<SnakeAt(0, 2400 * Unit, 60)>>,
   eB |-> <<SnakeAt(0, 2400 * Unit, 60)>>]

\* the seed participant p of scenario sc generated its world from
worldSeed(sc, p) ==
  IF "worlds" \in DOMAIN sc THEN sc.worlds[p]
  ELSE IF sc.mp \/ p = "A" THEN sc.seed ELSE Undefined

\* sc.left, when present, is the participant that has left through onExit
hasLeft(sc, p) == "left" \in DOMAIN sc /\ sc.left = p

GameInProgress(sc) ==
    /\ screen = [p \in Peers |-> IF (sc.mp \/ p = "A") /\ ~hasLeft(sc, p)
                                  THEN "GAME" ELSE "AUTH"]
    /\ isHost = [p \in Peers |-> sc.mp /\ p = "A"]
    /\ isMultiplayer = [p \in Peers |-> sc.mp]
    /\ conn = [p \in Peers |-> IF sc.mp /\ ~hasLeft(sc, p) THEN "BA" ELSE NoConn]
    /\ GAME_SEED = [p \in Peers |-> IF sc.mp \/ p = "A" THEN sc.seed ELSE Undefined]
    /\ connState = [c \in Conns |->
                      IF sc.mp /\ c = "BA"
                      THEN (IF "left" \in DOMAIN sc THEN "closed" ELSE "open")
                      ELSE "none"]
    /\ connEvent = [c \in Conns |-> FALSE]
    /\ chan = EmptyChan
    /\ lobbyHandlers = IF sc.mp THEN {[owner |-> "B", conn |-> "BA"]} ELSE {}
    /\ dataHandlers =
         IF sc.mp
         THEN {[owner |-> p, conn |-> "BA", isHost |-> (p = "A"), inst |-> 1] : p \in Peers}
         ELSE {}
    /\ mounts = [p \in Peers |-> IF sc.mp \/ p = "A" THEN 1 ELSE 0]
    /\ lost = 0
    /\ player = [p \in Peers |-> IF p = "A" THEN sc.pA ELSE sc.pB]
    /\ friend = [p \in Peers |-> IF ~sc.mp THEN NoFriend
                                  ELSE IF p = "A" THEN MirrorOf(sc.pB) ELSE MirrorOf(sc.pA)]
    /\ enemies = [p \in Peers |-> IF p = "A" THEN sc.eA ELSE sc.eB]
    /\ environment = [p \in Peers |-> initWorld(worldSeed(sc, p))]
    /\ score = [p \in Peers |-> 0]
    /\ gameOver = [p \in Peers |-> FALSE]
    /\ hudGameOver = [p \in Peers |-> FALSE]
    /\ loop = [p \in Peers |-> IF (sc.mp \/ p = "A") /\ ~hasLeft(sc, p)
                                THEN "scheduled" ELSE "off"]
    /\ timers = [p \in Peers |-> {}]
    /\ now = 1
    /\ ticks = [p \in Peers |-> 0]
    /\ lastTick = NoTick
    /\ gen = NoGen

InitEngine == \E sc \in Scenarios : GameInProgress(sc)

NextEngine ==
  \/ \E p \in Peers : gameLoop(p, MaxTicks)
  \/ \E p \in Peers : onAttack(p)
  \/ \E p \in Peers : onSnakeTimeout(p)
  \/ \E c \in Conns, p \in Peers : onData(c, p)
  \/ \E c \in Conns, p \in Peers : lose(c, p)

SpecEngine == InitEngine /\ [][NextEngine]_vars

\* ---- replication of the avatars between two peers whose worlds differ
InitMirror == GameInProgress(Duo3)

NextMirror ==
  \/ \E p \in Peers : gameLoop(p, MaxTicks)
  \/ \E c \in Conns, p \in Peers : onData(c, p)
  \/ \E c \in Conns, p \in Peers : lose(c, p)

SpecMirror == InitMirror /\ [][NextMirror]_vars

\* ---- a participant leaves a running game (onExit), the other plays on
InitLeave == \E sc \in {Solo1, Duo2} : GameInProgress(sc)

NextLeave ==
  \/ \E p \in Peers : gameLoop(p, MaxTicks)
  \/ \E p \in Peers : handleBack(p)
  \/ \E c \in Conns, p \in Peers : onData(c, p)

SpecLeave == InitLeave /\ [][NextLeave]_vars

\* ---- snakes around the aggro range of a player at the sanctuary centre
\* distance of the first snake from the player: inside the aggro range,
\* just outside it, and well outside
IdleDists == {799 * Unit, 801 * Unit, 900 * Unit}

\* the second snake: chasing, or far away on the other side
IdleSeconds == {SPAWN_ZONE_CENTER + 400 * Unit, SPAWN_ZONE_CENTER - 900 * Unit}

Idle(mp, side, d, x1) ==
  [mp |-> mp, seed |-> 1,
   pA |-> PlayerAt(SPAWN_ZONE_CENTER, 0, 100, 1, 0),
   pB |-> PlayerAt(SPAWN_ZONE_CENTER + 60 * Unit, 0, 100, 1, 0),
   eA |-> <<SnakeAt(0, SPAWN_ZONE_CENTER + side * d, 60), SnakeAt(1, x1, 60)>>,
   eB |-> IF mp THEN <<SnakeAt(0, SPAWN_ZONE_CENTER + side * d, 60), SnakeAt(1, x1, 60)>>
          ELSE <<>>]

InitIdle ==
  \E mp \in BOOLEAN, side \in {-1, 1}, d \in IdleDists, x1 \in IdleSeconds :
    GameInProgress(Idle(mp, side, d, x1))

NextIdle ==
  \/ \E p \in Peers : gameLoop(p, MaxTicks)
  \/ \E c \in Conns, p \in Peers : onData(c, p)

SpecIdle == InitIdle /\ [][NextIdle]_vars

\* ---- the peer plays on alone after the host left: no enemy logic runs and
\* no snapshot arrives, so the snakes of its mirror stand still.  The peer
\* has just made an attack (cooldown 25) that hit the nearer snake.
Alone ==
  [mp |-> TRUE, seed |-> 1, left |-> "A",
   pA |-> PlayerAt(2300 * Unit, 0, 100, 1, 0),
   pB |-> [PlayerAt(1310 * Unit, PI, 100, 1, 10)
             EXCEPT !.attackCooldown = playerCooldown, !.isAttacking = TRUE],
   eA |-> <<SnakeAt(0, 1170 * Unit, 60), SnakeAt(1, 1100 * Unit, 12)>>,
   eB |-> <<SnakeAt(0, 1210 * Unit, 48), SnakeAt(1, 1100 * Unit, 12)>>]

InitCooldown == GameInProgress(Alone)

NextCooldown ==
  \/ gameLoop("B", MaxCooldownTicks)
  \/ onAttack("B")

SpecCooldown == InitCooldown /\ [][NextCooldown]_vars

\* ---- a solo player around the edge of the healing stream of world 2
\* (zone centre 1250, radius 60); the snake is far away and idle
StreamStarts ==
  {SPAWN_ZONE_CENTER, SPAWN_ZONE_CENTER + streamRadius - speed,
   SPAWN_ZONE_CENTER + streamRadius - speed - 1,
   SPAWN_ZONE_CENTER + streamRadius - 1, SPAWN_ZONE_CENTER + streamRadius,
   SPAWN_ZONE_CENTER + streamRadius + 1}

StreamHps == {50, 98, 99, 100}

AtStream(x, hp) ==
  [mp |-> FALSE, seed |-> 2,
   pA |-> PlayerAt(x, 0, hp, 1, 0), pB |-> NewPlayer,
   eA |-> <<SnakeAt(0, SPAWN_ZONE_CENTER + 900 * Unit, 60)>>,
   eB |-> <<>>]

InitStream == \E x \in StreamStarts, hp \in StreamHps : GameInProgress(AtStream(x, hp))

NextStream == gameLoop("A", MaxTicks)

SpecStream == InitStream /\ [][NextStream]_vars

\* ---- a player walking towards an obstacle of world 2 ----
\* the rock at 430 and the tree at 1700; the starts are given as the gap
\* between the player's edge and the obstacle's edge, from more than one
\* step away to touching; inside a tree's radius also overlapping
CollideGaps == {2 * speed, speed + 1, speed, speed - 1, 1, 0}

CollideStarts ==
  LET env == initWorld(2) IN
  {env.rocks[1].pos - env.rocks[1].radius - NewPlayer.radius - g : g \in CollideGaps}
    \cup {env.trees[1].pos - env.trees[1].radius - NewPlayer.radius - g : g \in CollideGaps}
    \cup {env.trees[1].pos - NewPlayer.radius - g : g \in CollideGaps}

Collide(x) ==
  [mp |-> FALSE, seed |-> 2,
   pA |-> PlayerAt(x, 0, 100, 1, 0), pB |-> NewPlayer,
   eA |-> <<SnakeAt(0, SPAWN_ZONE_CENTER + 1100 * Unit, 60)>>,
   eB |-> <<>>]

InitCollide == \E x \in CollideStarts : GameInProgress(Collide(x))

NextCollide == gameLoop("A", MaxTicks)

SpecCollide == InitCollide /\ [][NextCollide]_vars

\* ---- the peer after its first kill ----
\* two peers on seed 1, one snake in the world. The peer started without
\* experience and killed snake-0-0 with an attack cd ticks short of a full
\* cooldown ago (xp = one kill). The host never saw that damage: its copy
\* has 12 health. The peer's copy is either still the dead one its attack
\* left (no snapshot got through since) or the one a snapshot restored.
RekillCooldowns == {0, 1, 2}

Rekill(cd, restored) ==
  [mp |-> TRUE, seed |-> 1,
   pA |-> PlayerAt(2300 * Unit, 0, 100, 1, 0),
   pB |-> [PlayerAt(1310 * Unit, PI, 100, 1, xpPerKill)
             EXCEPT !.attackCooldown = cd, !.isAttacking = cd > 0],
   eA |-> <<SnakeAt(0, 1210 * Unit, 12)>>,
   eB |-> IF restored THEN <<SnakeAt(0, 1210 * Unit, 12)>>
          ELSE <<SnakeAt(0, 1210 * Unit - knockback, 0)>>]

InitRekill ==
  \E cd \in RekillCooldowns, restored \in BOOLEAN : GameInProgress(Rekill(cd, restored))

NextRekill ==
  \/ \E p \in Peers : gameLoop(p, MaxTicks)
  \/ \E p \in Peers : onAttack(p)
  \/ \E c \in Conns, p \in Peers : onData(c, p)
  \/ \E c \in Conns, p \in Peers : lose(c, p)

SpecRekill == InitRekill /\ [][NextRekill]_vars

\* ---- melee: a solo game at the moment the attack key is pressed
\* facings of the player: towards +x, around the half-width of the cone on
\* either side, towards -x, and next to the -pi / +pi seam
Facings == {0, attackAngle - 1, attackAngle, attackAngle + 1, -attackAngle, PI, 1 - PI}

\* snake health after 0..4 hits of a level-1 player
HitChain == {60, 48, 36, 24, 12}

\* distance of the first snake: around the attack range
MeleeDists == {attackRange - 1, attackRange, attackRange + 1}

\* experience of the player: level 1 from the start or one kill short of
\* the level-up, level 2 capped
MeleeXps(level) == IF level >= 2 THEN {100} ELSE {0, 90}

Melee(rot, level, xp, side, d, hp0, hp1) ==
  [mp |-> FALSE, seed |-> 2,
   pA |-> PlayerAt(SPAWN_ZONE_CENTER, rot, 100, level, xp),
   pB |-> NewPlayer,
   eA |-> <<SnakeAt(0, SPAWN_ZONE_CENTER + side * d, hp0),
            SnakeAt(1, SPAWN_ZONE_CENTER + 100 * Unit, hp1)>>,
   eB |-> <<>>]

InitAttack ==
  \E rot \in Facings, level \in {1, 2}, side \in {-1, 1}, d \in MeleeDists,
     hp0 \in HitChain, hp1 \in {60, 12} :
    \E xp \in MeleeXps(level) :
      GameInProgress(Melee(rot, level, xp, side, d, hp0, hp1))

NextAttack == onAttack("A")

SpecAttack == InitAttack /\ [][NextAttack]_vars

\* ---- initWorld: the loop over the obstacle candidates
\* One candidate of the loop: the drawn position and the drawn kind.
Obstacle(i, x, isRock) ==
  [id |-> i, pos |-> x,
   radius |-> IF isRock THEN 35 * Unit ELSE 65 * Unit,
   type |-> IF isRock THEN "ROCK" ELSE "TREE"]

StreamZone(i, x) == [id |-> i, pos |-> x, radius |-> streamRadius, type |-> "STREAM"]

keepsNoMargin(c) == dist(c.pos, SPAWN_ZONE_CENTER) > SPAWN_ZONE_RADIUS

\* if (dist(pos, SPAWN_ZONE_CENTER) > SPAWN_ZONE_RADIUS + 50)
keeps(c) == dist(c.pos, SPAWN_ZONE_CENTER) > SPAWN_ZONE_RADIUS + margin

\* env after both loops: the stream zones, then the candidates that pass
placeObstacles(streams, cands) == streams \o SelectSeq(cands, keeps)

generateObstacles ==
  /\ ~gen.done
  /\ gen' = [gen EXCEPT !.env = placeObstacles(gen.streams, gen.cands), !.done = TRUE]
  /\ UNCHANGED <<sessionVars, engineVars, chan, lost, dataHandlers, now, lastTick>>

\* r1 * CANVAS_WIDTH on the row: the centre, both sides of the exclusion
\* boundary, the boundary itself, and a far point
CandidateXs ==
  {SPAWN_ZONE_CENTER,
   SPAWN_ZONE_CENTER + SPAWN_ZONE_RADIUS + margin - 1,
   SPAWN_ZONE_CENTER + SPAWN_ZONE_RADIUS + margin,
   SPAWN_ZONE_CENTER - SPAWN_ZONE_RADIUS - margin - 1,
   100 * Unit}

StreamXs == {SPAWN_ZONE_CENTER, 1417 * Unit}

InitGen ==
  /\ Unmounted
  /\ \E n \in 1..MaxCandidates, sx \in StreamXs :
       \E xs \in [1..n -> CandidateXs], ks \in [1..n -> BOOLEAN] :
         gen = [streams |-> <<StreamZone(0, sx)>>,
                cands |-> [i \in 1..n |-> Obstacle(i - 1, xs[i], ks[i])],
                env |-> <<>>, done |-> FALSE]

NextGen == generateObstacles

SpecGen == InitGen /\ [][NextGen]_vars

\* ---- the pseudo-random stream of the obstacle loop ----
\* seededRandom(k) is a function of its argument alone, so a value of the
\* stream is identified by the argument k it is computed from. NoDraw stands
\* for an attribute that was not computed.
NoDraw == -1

\* one iteration of the obstacle loop entered with currentSeed = cs: the
\* arguments used for each attribute. r1 and r2 advance currentSeed by one
\* each; the others are offsets from the advanced currentSeed and are only
\* evaluated when the position passes the sanctuary test.
drawCandidate(cs, i, kept, isRock) ==
  [id |-> i, kept |-> kept, isRock |-> kept /\ isRock,
   x |-> cs + 1,
   y |-> cs + 2,
   type |-> IF kept THEN cs + 2 + 10 ELSE NoDraw,
   rotation |-> IF kept THEN cs + 2 + 5 ELSE NoDraw,
   radius |-> IF ~kept THEN NoDraw ELSE IF isRock THEN cs + 2 ELSE cs + 2 + 1,
   next |-> cs + 2]

\* for (let i = 0; i < 250; i++) { ... }: one iteration; the outcome of the
\* sanctuary test and of the type threshold depend on the stream's values
obstacleLoopStep ==
  /\ ~gen.done
  /\ \E kept \in BOOLEAN, isRock \in BOOLEAN :
       /\ kept \/ ~isRock
       /\ LET c == drawCandidate(gen.currentSeed, Len(gen.cands), kept, isRock) IN
          gen' = [gen EXCEPT !.cands = Append(gen.cands, c),
                             !.currentSeed = c.next,
                             !.done = Len(gen.cands) + 1 >= MaxDraws]
  /\ UNCHANGED <<sessionVars, engineVars, chan, lost, dataHandlers, now, lastTick>>

\* let currentSeed = seed, with the seeds a session can hand to initWorld
InitDraws ==
  /\ Unmounted
  /\ \E seed \in (Seeds \ {0}) \cup RandomSeeds :
       gen = [seed |-> seed, currentSeed |-> seed, cands |-> <<>>, done |-> FALSE]

NextDraws == obstacleLoopStep

SpecDraws == InitDraws /\ [][NextDraws]_vars

\* ------------------------------------------------------------------ claims
\* C1: at the end of every simulation tick, a Player whose health is <= 0
\* has the terminal flag gameOver set.
C1_DeadPlayerIsGameOver ==
  [][\A p \in Peers :
       (ticks'[p] # ticks[p] /\ player'[p].hp <= 0) => gameOver'[p]]_vars

\* C2: once the Player's health is <= 0 the game loop runs no further
\* simulation tick (updatePhysics is not called again).
C2_NoTickAfterDeath ==
  [][\A p \in Peers : player[p].hp <= 0 => ticks'[p] = ticks[p]]_vars

\* C3: after any tick the health of the Player, the RemoteAvatar and every
\* Hostile lies in [0, maximum health].
C3_HealthInRange ==
  [][\A p \in Peers :
       ticks'[p] # ticks[p] =>
         /\ 0 <= player'[p].hp /\ player'[p].hp <= player'[p].maxHp
         /\ friend'[p] # NoFriend =>
              (0 <= friend'[p].hp /\ friend'[p].hp <= friend'[p].maxHp)
         /\ \A i \in 1..Len(enemies'[p]) :
              0 <= enemies'[p][i].hp /\ enemies'[p][i].hp <= enemies'[p][i].maxHp]_vars

\* C4: after any tick the position of the Player, the RemoteAvatar and every
\* Hostile lies inside the world rectangle, also next to an obstacle at a
\* world edge.
C4_PositionInWorld ==
  [][\A p \in Peers :
       ticks'[p] # ticks[p] =>
         /\ 0 <= player'[p].pos /\ player'[p].pos <= CANVAS_WIDTH
         /\ friend'[p] # NoFriend =>
              (0 <= friend'[p].pos /\ friend'[p].pos <= CANVAS_WIDTH)
         /\ \A i \in 1..Len(enemies'[p]) :
              0 <= enemies'[p][i].pos /\ enemies'[p][i].pos <= CANVAS_WIDTH]_vars

\* C5: when a non-host peer receives a WorldSnapshot, its Hostile collection
\* becomes exactly the list the snapshot carries (ids, order, field values).
C5_SnapshotReplacesMirror ==
  [][\A c \in Conns, p \in Peers :
       (/\ chan[c][p] # <<>>
        /\ chan'[c][p] = Tail(chan[c][p])
        /\ lost' = lost
        /\ Head(chan[c][p]).type = "WORLD_UPDATE"
        /\ screen[p] = "GAME" /\ isMultiplayer[p] /\ ~isHost[p] /\ conn[p] = c)
       => enemies'[p] = Head(chan[c][p]).enemies]_vars

\* the peer's mirror equals the collection of the host's latest tick, which
\* differs from the mirror the peer started with
C5_Witness ==
  /\ screen["B"] = "GAME" /\ isMultiplayer["B"] /\ ~isHost["B"]
  /\ lastTick.who = "A" /\ ticks["A"] > 0
  /\ chan["BA"]["B"] = <<>> /\ lost = 0
  /\ enemies["A"] # <<>>
  /\ enemies["B"] = enemies["A"]
  /\ \E i \in 1..Len(enemies["B"]) : enemies["B"][i].walkCycle > 0

\* C6: when both participants of a two-peer session are on the GAME screen,
\* exactly one of them has the Host role.
C6_ExactlyOneHost ==
  (/\ screen["A"] = "GAME" /\ screen["B"] = "GAME"
   /\ isMultiplayer["A"] /\ isMultiplayer["B"])
  => (isHost["A"] # isHost["B"])

\* C7: for every seed the Host can choose, 0 included, once the Peer has
\* received SessionStart both participants generate the world from the same
\* seed.
C7_SameWorldSeed ==
  \A p \in Peers :
    (/\ screen[p] = "GAME" /\ screen[Other(p)] = "GAME"
     /\ isMultiplayer[p] /\ isMultiplayer[Other(p)]
     /\ isHost[p] /\ ~isHost[Other(p)]
     /\ GAME_SEED[p] # Undefined /\ GAME_SEED[Other(p)] = GAME_SEED[p])
    => environment[Other(p)] = environment[p]

\* C8: a tick of a non-host peer adds and removes no Hostile, changes no
\* Hostile's facing, gait phase, cooldown or attacking flag (nor health), and
\* no Hostile damages the Player.
C8_PeerTickRunsNoEnemyLogic ==
  [][\A p \in Peers :
       (ticks'[p] # ticks[p] /\ isMultiplayer[p] /\ ~isHost[p]) =>
         /\ Len(enemies'[p]) = Len(enemies[p])
         /\ \A i \in 1..Len(enemies[p]) :
              [enemies'[p][i] EXCEPT !.pos = 0] = [enemies[p][i] EXCEPT !.pos = 0]
         /\ player'[p].hp >= player[p].hp
         /\ timers'[p] = timers[p]]_vars

\* the peer has just ticked with a Hostile that is ready to bite within bite
\* range of its Player
C8_Witness ==
  /\ lastTick.who = "B" /\ ticks["B"] > 0
  /\ isMultiplayer["B"] /\ ~isHost["B"]
  /\ \E i \in 1..Len(enemies["B"]) :
       /\ dist(enemies["B"][i].pos, player["B"].pos) < biteRange
       /\ enemies["B"][i].attackCooldown = 0
       /\ enemies["B"][i].hp > 0

\* C9: on the authority, when a tick removes dead Hostiles and fewer than the
\* floor remain, a batch of new Hostiles is spawned and these are members of
\* the Hostile collection at the end of that tick.
C9_RespawnedBatchIsKept ==
  [][\A p \in Peers :
       (/\ ticks'[p] # ticks[p] /\ authority(isMultiplayer[p], isHost[p])
        /\ lastTick'.removed > 0 /\ lastTick'.alive < respawnFloor)
       => /\ Len(lastTick'.spawned) = respawnBatch
          /\ \A i \in 1..Len(lastTick'.spawned) :
               lastTick'.spawned[i].id \in Ids(enemies'[p])]_vars

\* C10: on the authority, a tick that removes k > 0 dead Hostiles increases
\* the score, and a tick that removes none leaves it unchanged.
C10_ScoreFollowsRemovals ==
  [][\A p \in Peers :
       (ticks'[p] # ticks[p] /\ authority(isMultiplayer[p], isHost[p])) =>
         /\ lastTick'.removed > 0 => score'[p] > score[p]
         /\ lastTick'.removed = 0 => score'[p] = score[p]]_vars

\* C11: on a non-host peer the score changes only when a WorldSnapshot is
\* received, and after the receipt it equals the Host's score that the
\* snapshot carries.
C11_PeerScoreFromSnapshot ==
  [][\A c \in Conns, p \in Peers :
       (/\ chan[c][p] # <<>>
        /\ chan'[c][p] = Tail(chan[c][p])
        /\ lost' = lost
        /\ Head(chan[c][p]).type = "WORLD_UPDATE"
        /\ screen[p] = "GAME" /\ isMultiplayer[p] /\ ~isHost[p] /\ conn[p] = c)
       => /\ "score" \in DOMAIN Head(chan[c][p])
          /\ score'[p] = Head(chan[c][p]).score]_vars

\* C12: immediately after an AvatarState message is received, the receiver's
\* RemoteAvatar position, facing, gait phase, attacking flag, health and level
\* equal the fields of that message, whatever the mirror held before.
C12_AvatarStateOverwritesMirror ==
  [][\A c \in Conns, p \in Peers :
       (/\ chan[c][p] # <<>>
        /\ chan'[c][p] = Tail(chan[c][p])
        /\ lost' = lost
        /\ Head(chan[c][p]).type = "PLAYER_UPDATE"
        /\ screen[p] = "GAME" /\ isMultiplayer[p] /\ conn[p] = c
        /\ friend[p] # NoFriend)
       => LET d == Head(chan[c][p]).data
          IN /\ friend'[p].pos = d.pos
             /\ friend'[p].rotation = d.rotation
             /\ friend'[p].walkCycle = d.walkCycle
             /\ friend'[p].isAttacking = d.isAttacking
             /\ friend'[p].hp = d.hp
             /\ friend'[p].level = d.level]_vars

\* the peer's mirror of the host's avatar holds what the host reported after
\* walking: it differs from the mirror the peer started with
C12_Witness ==
  /\ screen["B"] = "GAME" /\ isMultiplayer["B"]
  /\ ticks["A"] > 0 /\ chan["BA"]["B"] = <<>>
  /\ friend["B"] # NoFriend
  /\ friend["B"].walkCycle > 0
  /\ friend["B"].pos = player["A"].pos
  /\ friend["B"].hp = player["A"].hp

\* C13: after initial placement, a local simulation tick (world-bound clamp
\* and obstacle collision included) leaves the RemoteAvatar's position,
\* facing, gait phase and health unchanged.
C13_TickKeepsRemoteAvatar ==
  [][\A p \in Peers :
       (ticks'[p] # ticks[p] /\ friend[p] # NoFriend) =>
         /\ friend'[p].pos = friend[p].pos
         /\ friend'[p].rotation = friend[p].rotation
         /\ friend'[p].walkCycle = friend[p].walkCycle
         /\ friend'[p].hp = friend[p].hp]_vars

\* C14: over an open, ordered, lossless channel, once the last AvatarState
\* is delivered (and after any further local ticks of the receiver) the
\* receiver's RemoteAvatar position equals the sender's Player position.
C14_MirrorConverges ==
  \A p \in Peers :
    (/\ screen[p] = "GAME" /\ screen[Other(p)] = "GAME"
     /\ isMultiplayer[p] /\ isMultiplayer[Other(p)]
     /\ conn[p] # NoConn /\ conn[p] = conn[Other(p)]
     /\ connState[conn[p]] = "open"
     /\ lost = 0
     /\ ticks[Other(p)] > 0
     /\ friend[p] # NoFriend
     /\ \A i \in 1..Len(chan[conn[p]][p]) :
          chan[conn[p]][p][i].type # "PLAYER_UPDATE")
    => friend[p].pos = player[Other(p)].pos

\* C16: after generation every Tree or Rock lies at distance >= sanctuary
\* radius + margin (300 + 50) from the sanctuary centre; a candidate closer
\* than that is absent from the result (dropped), every obstacle of the
\* result is one of the candidates at its drawn position (none relocated),
\* and so there are at most as many obstacles as candidates.
C16_ObstaclesOutsideSanctuary ==
  LET obstacles == SelectSeq(gen.env, LAMBDA e : e.type \in {"TREE", "ROCK"}) IN
  gen.done =>
    /\ \A j \in 1..Len(obstacles) :
         dist(obstacles[j].pos, SPAWN_ZONE_CENTER) >= 350 * Unit
    /\ \A i \in 1..Len(gen.cands) :
         dist(gen.cands[i].pos, SPAWN_ZONE_CENTER) < 350 * Unit
           => \A j \in 1..Len(obstacles) : obstacles[j].id # gen.cands[i].id
    /\ \A j \in 1..Len(obstacles) :
         \E i \in 1..Len(gen.cands) : gen.cands[i] = obstacles[j]
    /\ Len(obstacles) <= Len(gen.cands)

\* a generation that dropped a candidate just inside the boundary and kept one
C16_Witness ==
  LET obstacles == SelectSeq(gen.env, LAMBDA e : e.type \in {"TREE", "ROCK"}) IN
  /\ gen.done
  /\ Len(obstacles) >= 1
  /\ Len(obstacles) < Len(gen.cands)
  /\ \E i \in 1..Len(gen.cands) :
       dist(gen.cands[i].pos, SPAWN_ZONE_CENTER) = 350 * Unit - 1

\* C17: a melee attack changes a snake (health or position) only if the
\* snake's distance from the player is strictly less than the attack range
\* 150 and the absolute normalised angle between the player's facing and the
\* direction to the snake is strictly less than the half-width 1.5; a snake
\* exactly at the range or exactly on the angular boundary is left as it was.
C17_StrictRangeAndAngle ==
  [][\A p \in Peers :
       (player[p].attackCooldown <= 0 /\ player'[p].attackCooldown = 25
          /\ player'[p].isAttacking /\ Len(enemies'[p]) = Len(enemies[p]))
       => \A i \in 1..Len(enemies[p]) :
            LET e == enemies[p][i]
                d == Abs(e.pos - player[p].pos)
                raw == (IF e.pos < player[p].pos THEN PI ELSE 0) - player[p].rotation
                a == Abs(IF raw > PI THEN raw - 2 * PI
                         ELSE IF raw < -PI THEN raw + 2 * PI ELSE raw)
            IN /\ (enemies'[p][i].hp # e.hp \/ enemies'[p][i].pos # e.pos)
                    => (d < 150 * Unit /\ a < 1500)
               /\ (d = 150 * Unit \/ a = 1500) => enemies'[p][i] = e]_vars

\* after an attack of a player facing +x: the snake exactly at the attack
\* range stands where it stood, the snake at distance 100 was knocked back
C17_Witness ==
  /\ player["A"].attackCooldown = 25 /\ player["A"].isAttacking
  /\ player["A"].rotation = 0
  /\ Len(enemies["A"]) = 2
  /\ enemies["A"][1].pos = player["A"].pos + 150 * Unit
  /\ enemies["A"][1].hp = 60
  /\ enemies["A"][2].pos = player["A"].pos + 140 * Unit
  /\ enemies["A"][2].hp = 48

\* C18: a hit of a level-2 player on a snake at full health 60 leaves it with
\* health <= 0; a snake hit only by a level-1 player (health 60 - 12k after k
\* hits) has health > 0 after each of the hits 1..4 and health <= 0 after
\* the fifth.
C18_HitsToKill ==
  [][\A p \in Peers :
       (player[p].attackCooldown <= 0 /\ player'[p].attackCooldown = 25
          /\ player'[p].isAttacking /\ Len(enemies'[p]) = Len(enemies[p]))
       => \A i \in 1..Len(enemies[p]) :
            LET hp0 == enemies[p][i].hp
                hp1 == enemies'[p][i].hp
                k == (60 - hp0) \div 12
            IN hp1 # hp0 =>
                 /\ (player[p].level >= 2 /\ hp0 = 60) => hp1 <= 0
                 /\ (player[p].level = 1 /\ hp0 = 60 - 12 * k /\ k \in 0..4)
                      => /\ hp1 = 60 - 12 * (k + 1)
                         /\ (k + 1 < 5 => hp1 > 0)
                         /\ (k + 1 = 5 => hp1 <= 0)]_vars

\* after an attack of a level-1 player (one kill: xp 10): the snake that had
\* taken four hits is dead, the snake at full health survived its first hit
C18_Witness ==
  /\ player["A"].attackCooldown = 25 /\ player["A"].isAttacking
  /\ player["A"].level = 1 /\ player["A"].xp = 10
  /\ Len(enemies["A"]) = 2
  /\ enemies["A"][1].hp = 0
  /\ enemies["A"][2].hp = 48

\* C19: a frame of a participant whose session is not multiplayer, who has
\* no connection, or whose channel is not open sends nothing (no AvatarState,
\* no WorldSnapshot), still runs the simulation tick, and leaves the loop
\* scheduled for the next frame.
C19_NoSendWithoutOpenChannel ==
  [][\A p \in Peers :
       (loop[p] = "scheduled" /\ ~gameOver[p]
          /\ ticks'[p] # ticks[p]
          /\ screen'[p] = "GAME" /\ screen[p] = "GAME"
          /\ (~isMultiplayer[p] \/ conn[p] = NoConn \/ connState[conn[p]] # "open"))
       => /\ chan' = chan
          /\ ticks'[p] = ticks[p] + 1
          /\ lastTick'.who = p /\ lastTick'.sent = 0
          /\ loop'[p] = "scheduled"]_vars

\* the peer's only frame ran after the host left: channel closed, the player
\* moved, nothing was sent, the loop is scheduled
C19_Witness ==
  /\ isMultiplayer["B"] /\ conn["B"] # NoConn /\ connState[conn["B"]] = "closed"
  /\ ticks["B"] = 1 /\ ticks["A"] = 0
  /\ lastTick.who = "B" /\ lastTick.sent = 0
  /\ player["B"].pos # Duo2.pB.pos
  /\ chan = EmptyChan
  /\ loop["B"] = "scheduled"

\* C20: once messages have been lost, the delivery of a later AvatarState
\* makes the receiver's RemoteAvatar the record that this message alone
\* determines, and the delivery of a later WorldSnapshot at a non-host makes
\* its Hostile collection the list of this message, whichever messages were
\* lost before; neither a delivery nor a loss puts any message (retry,
\* acknowledgement, loss report) on a channel, and only AvatarState,
\* WorldSnapshot and the start message are ever in flight.
C20_NextMessageSupersedesLoss ==
  [][\A c \in Conns, p \in Peers :
       (chan[c][p] # <<>> /\ chan'[c][p] = Tail(chan[c][p]))
       => LET m == Head(chan[c][p])
              live == screen[p] = "GAME" /\ isMultiplayer[p] /\ conn[p] = c
          IN /\ \A c2 \in Conns, q \in Peers :
                  /\ Len(chan'[c2][q]) <= Len(chan[c2][q])
                  /\ \A i \in 1..Len(chan[c2][q]) :
                       chan[c2][q][i].type \in {"PLAYER_UPDATE", "WORLD_UPDATE", "GAME_START"}
             /\ (lost' = lost /\ lost > 0 /\ live /\ m.type = "PLAYER_UPDATE"
                   /\ friend[p] # NoFriend)
                  => friend'[p] =
                       [id |-> "p2", type |-> "FRIEND", radius |-> 25 * Unit,
                        maxHp |-> 100, attackCooldown |-> 0,
                        pos |-> m.data.pos, rotation |-> m.data.rotation,
                        walkCycle |-> m.data.walkCycle,
                        isAttacking |-> m.data.isAttacking,
                        hp |-> m.data.hp, level |-> m.data.level]
             /\ (lost' = lost /\ lost > 0 /\ live /\ m.type = "WORLD_UPDATE"
                   /\ ~isHost[p])
                  => enemies'[p] = m.enemies]_vars

\* the host walked for two frames, one message of its first frame was lost,
\* the messages of its second frame arrived: the peer's mirror is the host's
\* present avatar and snake list
C20_Witness ==
  /\ lost = 1
  /\ ticks["A"] = 2 /\ player["A"].walkCycle = 6
  /\ chan["BA"]["B"] = <<>>
  /\ friend["B"] # NoFriend
  /\ friend["B"].pos = player["A"].pos
  /\ friend["B"].walkCycle = 6
  /\ friend["B"].level = player["A"].level
  /\ enemies["B"] = enemies["A"]

\* C21: a melee attack of the non-host peer puts no message on any channel
\* and leaves the host's snakes as they are (only the peer's own mirror can
\* change); and when the peer then receives a WorldSnapshot, its mirror has
\* as many snakes as the snapshot and each has the snapshot's health and
\* position, whatever the peer's attacks had done to the mirror.
C21_PeerDamageIsProvisional ==
  [][\A p \in Peers :
       (screen[p] = "GAME" /\ isMultiplayer[p] /\ ~isHost[p])
       => /\ (player[p].attackCooldown <= 0 /\ player'[p].attackCooldown = 25
                /\ ticks' = ticks)
               => /\ chan' = chan
                  /\ enemies'[Other(p)] = enemies[Other(p)]
                  /\ player'[Other(p)] = player[Other(p)]
                  /\ friend'[Other(p)] = friend[Other(p)]
          /\ \A c \in Conns :
               (chan[c][p] # <<>> /\ chan'[c][p] = Tail(chan[c][p]) /\ lost' = lost
                  /\ conn[p] = c /\ Head(chan[c][p]).type = "WORLD_UPDATE")
               => LET snap == Head(chan[c][p]).enemies
                  IN /\ Len(enemies'[p]) = Len(snap)
                     /\ \A i \in 1..Len(snap) :
                          /\ enemies'[p][i].id = snap[i].id
                          /\ enemies'[p][i].hp = snap[i].hp
                          /\ enemies'[p][i].pos = snap[i].pos]_vars

\* the peer killed a snake of its mirror (which took it to level 2) and then
\* received the host's snapshot: its mirror is the host's list again
C21_Witness ==
  /\ screen["B"] = "GAME" /\ isMultiplayer["B"] /\ ~isHost["B"]
  /\ player["B"].level = 2 /\ player["B"].attackCooldown > 0
  /\ ticks["A"] > 0 /\ lastTick.who = "A"
  /\ chan["BA"]["B"] = <<>> /\ lost = 0
  /\ enemies["A"] # <<>>
  /\ enemies["B"] = enemies["A"]

\* C22: a participant that is the non-host of a two-peer session mounts its
\* engine (which generates its environment) only in the step that delivers
\* the host's SessionStart to it, and runs its first tick only with the
\* seed of a SessionStart stored.
C22_PeerStartsAfterSessionStart ==
  [][\A p \in Peers :
       /\ (mounts'[p] > mounts[p] /\ isMultiplayer'[p] /\ ~isHost'[p])
            => \E c \in Conns :
                 /\ chan[c][p] # <<>>
                 /\ Head(chan[c][p]).type = "GAME_START"
                 /\ chan'[c][p] = Tail(chan[c][p])
                 /\ GAME_SEED'[p] = Head(chan[c][p]).seed
       /\ (ticks'[p] > ticks[p] /\ isMultiplayer[p] /\ ~isHost[p])
            => (mounts[p] > 0 /\ GAME_SEED[p] # Undefined)]_vars

\* the joined peer has run a tick: it holds the seed the host sent
C22_Witness ==
  \E p \in Peers :
    /\ screen[p] = "GAME" /\ isMultiplayer[p] /\ ~isHost[p]
    /\ ticks[p] > 0
    /\ isHost[Other(p)] /\ screen[Other(p)] = "GAME"
    /\ GAME_SEED[p] = GAME_SEED[Other(p)]

\* C23: the environment of a mounted engine never changes: no step of a
\* participant that is and stays on the GAME screen (tick, attack, received
\* message, incoming connection, connection opening, change of role)
\* replaces or alters its environment collection.
C23_EnvironmentIsFixed ==
  [][\A p \in Peers :
       (screen[p] = "GAME" /\ screen'[p] = "GAME" /\ mounts'[p] = mounts[p])
       => environment'[p] = environment[p]]_vars

\* C24: in a tick of the authority, a snake that is closer to the sanctuary
\* centre than the sanctuary-proximity threshold (radius + 50) and survives
\* the tick ends it farther from the sanctuary centre than it began (it
\* moved radially outward, not towards its target).
C24_SnakeFleesSanctuary ==
  [][\A p \in Peers :
       (ticks'[p] # ticks[p] /\ (~isMultiplayer[p] \/ isHost[p]))
       => \A i \in 1..Len(enemies[p]), j \in 1..Len(enemies'[p]) :
            (/\ enemies'[p][j].id = enemies[p][i].id
             /\ Abs(enemies[p][i].pos - 1250 * Unit) < 350 * Unit)
            => Abs(enemies'[p][j].pos - 1250 * Unit)
                 > Abs(enemies[p][i].pos - 1250 * Unit)]_vars

\* C25: in a tick of the authority in which the player stands still, a snake
\* with cooldown 0 that is within bite range (35) of its target (the remote
\* avatar if strictly nearer, else the player) lowers that target's health
\* and has its cooldown set; and a snake whose cooldown rose in the tick has
\* lowered its target's health.
C25_BiteDamagesTarget ==
  [][\A p \in Peers :
       (ticks'[p] # ticks[p] /\ (~isMultiplayer[p] \/ isHost[p])
          /\ player'[p].pos = player[p].pos)
       => \A i \in 1..Len(enemies[p]), j \in 1..Len(enemies'[p]) :
            enemies'[p][j].id = enemies[p][i].id
            => LET e == enemies[p][i]
                   dP == Abs(e.pos - player[p].pos)
                   toFriend == friend[p] # NoFriend /\ Abs(e.pos - friend[p].pos) < dP
                   d == IF toFriend THEN Abs(e.pos - friend[p].pos) ELSE dP
                   damaged == IF toFriend THEN friend'[p].hp < friend[p].hp
                              ELSE player'[p].hp < player[p].hp
               IN /\ (d < 35 * Unit /\ e.attackCooldown = 0)
                       => (damaged /\ enemies'[p][j].attackCooldown > 0)
                  /\ enemies'[p][j].attackCooldown > e.attackCooldown => damaged]_vars

\* C26: in a tick of the authority, a snake that is farther than the aggro
\* range 800 from the player (before and after the player's move of the
\* tick) and from the remote avatar, outside the sanctuary threshold, and
\* clear of the world edge and of every rock, keeps its position and facing
\* and does not bite; when every snake is such a snake, the tick lowers
\* nobody's health.
C26_FarSnakeIsIdle ==
  [][\A p \in Peers :
       (ticks'[p] # ticks[p] /\ (~isMultiplayer[p] \/ isHost[p]))
       => LET far(e) ==
                /\ Abs(e.pos - player[p].pos) > 800 * Unit
                /\ Abs(e.pos - player'[p].pos) > 800 * Unit
                /\ friend[p] # NoFriend => Abs(e.pos - friend[p].pos) > 800 * Unit
                /\ Abs(e.pos - 1250 * Unit) >= 350 * Unit
                /\ e.pos >= 0 /\ e.pos <= 2500 * Unit
                /\ \A k \in 1..Len(environment[p].rocks) :
                     Abs(e.pos - environment[p].rocks[k].pos)
                       >= e.radius + environment[p].rocks[k].radius
          IN /\ \A i \in 1..Len(enemies[p]), j \in 1..Len(enemies'[p]) :
                  (enemies'[p][j].id = enemies[p][i].id /\ far(enemies[p][i]))
                  => /\ enemies'[p][j].pos = enemies[p][i].pos
                     /\ enemies'[p][j].rotation = enemies[p][i].rotation
                     /\ enemies'[p][j].attackCooldown <= enemies[p][i].attackCooldown
                     /\ enemies'[p][j].isAttacking = enemies[p][i].isAttacking
             /\ (\A i \in 1..Len(enemies[p]) : far(enemies[p][i]))
                  => /\ player'[p].hp >= player[p].hp
                     /\ friend[p] # NoFriend => friend'[p].hp = friend[p].hp]_vars

\* the player stayed at the sanctuary centre for a tick: the snake at
\* distance 900 is where it was, facing as before, while the snake at
\* distance 400 has advanced
C26_Witness ==
  /\ ticks["A"] > 0 /\ ~isMultiplayer["A"]
  /\ player["A"].pos = 1250 * Unit
  /\ Len(enemies["A"]) = 2
  /\ enemies["A"][1].pos = (1250 + 900) * Unit
  /\ enemies["A"][1].rotation = 0 /\ enemies["A"][1].walkCycle = 0
  /\ enemies["A"][2].pos < (1250 + 400) * Unit

\* C27: the player's cooldown rises only in an attack made at cooldown 0,
\* and then to 25; a step that is not a tick, taken while the cooldown is
\* > 0, changes nothing of the player (cooldown, experience, level) and no
\* snake's health or position; a tick lowers the cooldown by at most 1; and
\* in a game whose player attacked just before its first tick, the next
\* effective attack comes after at least 25 ticks.
C27_AttackCooldown ==
  [][\A p \in Peers :
       /\ player'[p].attackCooldown > player[p].attackCooldown
            => /\ player[p].attackCooldown = 0
               /\ player'[p].attackCooldown = 25
               /\ ticks' = ticks
               /\ ticks[p] >= 25
       /\ (ticks' = ticks /\ player[p].attackCooldown > 0)
            => /\ player'[p] = player[p]
               /\ Len(enemies'[p]) = Len(enemies[p])
               /\ \A i \in 1..Len(enemies[p]) :
                    /\ enemies'[p][i].hp = enemies[p][i].hp
                    /\ enemies'[p][i].pos = enemies[p][i].pos
       /\ ticks'[p] # ticks[p]
            => player'[p].attackCooldown >= player[p].attackCooldown - 1]_vars

\* the second effective attack, made after the 25th tick, has hit the snake
\* that the first attack had left at 48
C27_Witness ==
  /\ ticks["B"] = 25
  /\ player["B"].attackCooldown = 25 /\ player["B"].isAttacking
  /\ \E i \in 1..Len(enemies["B"]) : enemies["B"][i].hp = 36

\* C28: the player's level is 1 or 2 and no step lowers it; experience is
\* never above experience-to-next; an attack of a level-1 player adds 10
\* experience for each snake whose health it takes from > 0 to <= 0 (up to
\* the cap, where the level becomes 2), and an attack of a level-2 player
\* changes neither level nor experience.
C28_LevelAndExperience ==
  [][\A p \in Peers :
       /\ player[p].level \in {1, 2} /\ player'[p].level \in {1, 2}
       /\ player[p].xp <= player[p].maxXp /\ player'[p].xp <= player'[p].maxXp
       /\ mounts'[p] = mounts[p] => player'[p].level >= player[p].level
       /\ (player[p].attackCooldown <= 0 /\ player'[p].attackCooldown = 25
             /\ Len(enemies'[p]) = Len(enemies[p]))
            => LET kills == Cardinality({i \in 1..Len(enemies[p]) :
                                           enemies[p][i].hp > 0 /\ enemies'[p][i].hp <= 0})
               IN IF player[p].level = 1
                  THEN /\ player'[p].xp =
                            (IF player[p].xp + 10 * kills <= player[p].maxXp
                             THEN player[p].xp + 10 * kills ELSE player[p].maxXp)
                       /\ player'[p].level = 1 <=> player'[p].xp < player[p].maxXp
                  ELSE /\ player'[p].level = player[p].level
                       /\ player'[p].xp = player[p].xp]_vars

\* a level-1 player killed both snakes in one attack: experience 20, level 1
C28_Witness ==
  /\ player["A"].attackCooldown = 25
  /\ player["A"].level = 1 /\ player["A"].xp = 20
  /\ Len(enemies["A"]) = 2
  /\ enemies["A"][1].hp = 0 /\ enemies["A"][2].hp = 0

\* C29: a tick raises the player's health by at most 1 and never above
\* maximum health; it raises it only if the player, where the tick's move
\* has put it, is within a stream zone of its world; and when the player is
\* outside every stream zone and no snake is within bite range, the tick
\* leaves the health unchanged.
C29_StreamHealing ==
  [][\A p \in Peers :
       ticks'[p] # ticks[p]
       => LET inZone == \E k \in 1..Len(environment[p].streams) :
                          Abs(player'[p].pos - environment[p].streams[k].pos)
                            <= environment[p].streams[k].radius
              noBite == \A i \in 1..Len(enemies[p]) :
                          Abs(enemies[p][i].pos - player'[p].pos) >= 35 * Unit
          IN /\ player'[p].hp <= player[p].hp + 1
             /\ player[p].hp <= player[p].maxHp => player'[p].hp <= player'[p].maxHp
             /\ player'[p].hp > player[p].hp => inZone
             /\ (~inZone /\ noBite) => player'[p].hp = player[p].hp]_vars

\* one tick just inside the edge of the stream took the health from 50 to 51
C29_Witness ==
  /\ ticks["A"] = 1 /\ lastTick.who = "A"
  /\ player["A"].hp = 51 /\ player["A"].maxHp = 100
  /\ player["A"].pos = 1250 * Unit + 60 * Unit - 1
  /\ Len(enemies["A"]) = 1
  /\ enemies["A"][1].pos = (1250 + 900) * Unit

\* C30: a SessionStart is put on a channel only while the channel is open,
\* by a participant that is on the LOBBY screen and leaves it in that step
\* (so not twice), with no AvatarState or WorldSnapshot of the sender ahead
\* of it on the channel; and a participant that is sent an AvatarState or a
\* WorldSnapshot by a host has been sent a SessionStart on that channel
\* before, so that it receives no such message while it still waits in the
\* lobby.
C30_SessionStartFirst ==
  [][\A c \in Conns, q \in Peers :
       /\ (Len(chan'[c][q]) > Len(chan[c][q])
             /\ chan'[c][q][Len(chan'[c][q])].type = "GAME_START")
            => /\ connState[c] = "open"
               /\ screen[Other(q)] = "LOBBY" /\ screen'[Other(q)] = "GAME"
               /\ Len(chan'[c][q]) = Len(chan[c][q]) + 1
               /\ \A i \in 1..Len(chan[c][q]) : chan[c][q][i].type = "GAME_START"
       /\ (chan[c][q] # <<>> /\ chan'[c][q] = Tail(chan[c][q]) /\ lost' = lost
             /\ Head(chan[c][q]).type \in {"PLAYER_UPDATE", "WORLD_UPDATE"}
             /\ isHost[Other(q)])
            => screen[q] = "GAME"]_vars

\* C31: every snake the spawn policy creates (the batch of a respawning
\* tick, and the batch session initialisation appends) starts at distance
\* >= 300 from the sanctuary centre and at distance >= 600 from where the
\* player stands at that moment.
C31_SpawnKeepsDistance ==
  [][\A p \in Peers :
       LET ok(e) == /\ Abs(e.pos - 1250 * Unit) >= 300 * Unit
                    /\ Abs(e.pos - player'[p].pos) >= 600 * Unit
       IN /\ (ticks'[p] # ticks[p] /\ lastTick'.who = p)
               => \A i \in 1..Len(lastTick'.spawned) : ok(lastTick'.spawned[i])
          /\ (ticks' = ticks /\ chan' = chan /\ Len(enemies'[p]) > Len(enemies[p]))
               => \A i \in (Len(enemies[p]) + 1)..Len(enemies'[p]) : ok(enemies'[p][i])]_vars

\* the host near the right edge of the world respawned a batch at x = 700,
\* the one drawn position that is far enough from it and from the sanctuary
C31_Witness ==
  /\ lastTick.spawned # <<>>
  /\ lastTick.who = "A" /\ ticks["A"] > 0
  /\ player["A"].pos >= 2300 * Unit
  /\ \A i \in 1..Len(lastTick.spawned) : lastTick.spawned[i].pos = 700 * Unit

\* C32: in every reachable state the ids of the snakes in a participant's
\* collection are pairwise distinct.
C32_SnakeIdsDistinct ==
  \A p \in Peers : \A i, j \in 1..Len(enemies[p]) :
     enemies[p][i].id = enemies[p][j].id => i = j

\* C33: every obstacle the generator creates takes its attributes from five
\* successive stream values in the order x, y, rotation, radius, type; the
\* values of one candidate are pairwise different, and no value is used by
\* two candidates.
C33_FiveSuccessiveDraws ==
  LET drawsOf(c) == {c.x, c.y, c.rotation, c.radius, c.type} \ {NoDraw} IN
  /\ \A i \in 1..Len(gen.cands) :
       LET c == gen.cands[i] IN
       /\ c.y = c.x + 1
       /\ c.kept => /\ c.rotation = c.x + 2
                    /\ c.radius = c.x + 3
                    /\ c.type = c.x + 4
       /\ Cardinality(drawsOf(c)) = IF c.kept THEN 5 ELSE 2
  /\ \A i, j \in 1..Len(gen.cands) :
       i # j => drawsOf(gen.cands[i]) \cap drawsOf(gen.cands[j]) = {}

\* C34: in the collision step of a tick, a player that its move has brought
\* closer to a rock than the sum of the radii, or closer to a tree than its
\* radius plus some reduced radius of the tree, ends the tick at exactly
\* that minimum distance from the obstacle, on the side it came from; a
\* player that is not that close ends the tick where its move put it.
C34_PushedOutOfRocksAndTrees ==
  [][\A p \in Peers :
       ticks'[p] # ticks[p] =>
         \E dx \in {-1, 0, 1} :
           LET m == clampX(player[p].pos + dx * speed)
               after == player'[p].pos
               pushed(o, minD) ==
                 IF Abs(m - o.pos) < minD
                 THEN /\ Abs(after - o.pos) = minD
                      /\ (after >= o.pos) = (m >= o.pos)
                 ELSE after = m
           IN /\ \A k \in 1..Len(environment[p].rocks) :
                   LET o == environment[p].rocks[k]
                   IN  Abs(player[p].pos - o.pos) < 200 * Unit
                         => pushed(o, player[p].radius + o.radius)
              /\ \A k \in 1..Len(environment[p].trees) :
                   LET o == environment[p].trees[k]
                   IN  Abs(player[p].pos - o.pos) < 200 * Unit
                         => \E reduced \in 1..o.radius :
                              pushed(o, player[p].radius + reduced)]_vars

\* C35: in every reachable state a participant's own player has its
\* attacking flag set exactly when its attack cooldown is > 0, and the
\* cooldown is an integer in 0..25.
C35_AttackingIffCooldown ==
  \A p \in Peers :
    /\ player[p].isAttacking = (player[p].attackCooldown > 0)
    /\ player[p].attackCooldown \in 0..25

\* the cooldown of an attack has run out in a tick, which cleared the flag,
\* and the next attack has set both again
C35_Witness ==
  /\ ticks["B"] >= 25
  /\ player["B"].attackCooldown = 25
  /\ player["B"].isAttacking

\* C36: a step that finds a participant on the GAME screen and leaves it
\* there changes neither its isHost, its isMultiplayer nor its connection,
\* and does not run session initialisation again: no data listener is
\* registered, the environment is not regenerated, and no snakes are added
\* outside a tick or a received message.
C36_RoleAndLinkFixedInGame ==
  [][\A p \in Peers :
       (screen[p] = "GAME" /\ screen'[p] = "GAME")
       => /\ isHost'[p] = isHost[p]
          /\ isMultiplayer'[p] = isMultiplayer[p]
          /\ conn'[p] = conn[p]
          /\ {h \in dataHandlers' : h.owner = p} = {h \in dataHandlers : h.owner = p}
          /\ environment'[p] = environment[p]
          /\ (ticks' = ticks /\ chan' = chan)
               => Len(enemies'[p]) = Len(enemies[p])]_vars

\* C37: the delivery of a WorldSnapshot to a participant that has the Host
\* role leaves that participant's snake collection and score unchanged.
C37_HostIgnoresSnapshot ==
  [][\A c \in Conns, p \in Peers :
       (/\ chan[c][p] # <<>> /\ chan'[c][p] = Tail(chan[c][p]) /\ lost' = lost
        /\ Head(chan[c][p]).type = "WORLD_UPDATE"
        /\ isHost[p])
       => /\ enemies'[p] = enemies[p]
          /\ score'[p] = score[p]]_vars

\* C38: a player that started without experience and has only ever had
\* the snake snake-0-0 in its collection holds at most the experience of
\* one kill: that snake has awarded it at most once, whatever attacks,
\* snapshots, losses and stalls came in between.
C38_KillAwardedOnce ==
  \A p \in Peers :
    (\A i \in 1..Len(enemies[p]) : enemies[p][i].id = <<0, 0>>)
      => player[p].xp <= xpPerKill

====
